---- MODULE Spec2Model ----
(***************************************************************************)
(* The log-structured key/value store of package datastore (db.go): one    *)
(* directory holding the file current-data and the files segment-<nanos>,  *)
(* an in-memory hash index key -> byte offset, a single writer goroutine   *)
(* fed by a channel, concurrent readers, and MergeSegments.                *)
(*                                                                         *)
(* Every goroutine is a process with a program counter; one action is one  *)
(* step of the code between two points where another goroutine can observe *)
(* the directory, the index or a channel.                                  *)
(***************************************************************************)
EXTENDS Integers, Sequences, FiniteSets, TLC

\* ------------------------------------------------------------------ bounds
\* Calls of Put by a caller that makes its calls one after another.
MaxPuts == 4
\* Calls of Put by callers that run side by side.
MaxConcPuts == 3
\* Calls of MergeSegments.
MaxMerges == 1
\* Calls of Open after the first.
MaxOpens == 1
\* Crashes and I/O faults.
MaxFaults == 1
\* The largest total of a report a backend gives.
MaxTraffic == 1
\* The maxSegmentSize given to OpenWithSegmentSize, in bytes: two or three
\* records fill the current file.
MaxSegmentSize == 9
\* A maxSegmentSize that one record fills.
SmallSegmentSize == 4

\* ------------------------------------------------------- program constants
\* make(chan writeRequest, 100)
QueueCap == 100

Keys == {"a", "b"}
Vals == {"v1", "v2"}
Putters == {1, 2}

\* Results of Get and of a decode that are not a value of Vals.
NotFound == "record does not exist"
DecodeErr == "decode error"
\* "key absent from the index" (the ok = false of a Go map lookup).
NoPos == -1
\* Returns of Put.
Ok == "nil"
\* The error of a system call that failed.
IOFault == "input/output error"
\* The error of a call on an os.File whose Close has been called.
ErrFileClosed == "file already closed"
\* Returns of OpenWithSegmentSize: nil, or the error of recoverFromFile
\* with the path it names.
OpenOk == [err |-> "nil", file |-> <<"none", 0>>]
CorruptedFile(name) == [err |-> "corrupted file", file |-> name]
CurrentData == <<"current-data", 0>>
Segment(n) == <<"segment", n>>
None == "none"
ErrClosed == "database is shutting down"

\* ------------------------------------------------------------ record codec
\* entry.Encode / entry.DecodeFromReader: a length-prefixed frame.  A frame
\* is two length prefixes, the key bytes and the value bytes.
FrameOverhead == 2
KeyLen(k) == 1
ValLen(v) == IF v = "v1" THEN 1 ELSE 2
\* A partial frame: the first byte of a record whose write was cut short.
Partial == [key |-> "partial", value |-> "partial"]
PartialLen == 1
EncodedLen(k, v) ==
    IF k = Partial.key THEN PartialLen ELSE FrameOverhead + KeyLen(k) + ValLen(v)
\* The shortest record a Put can write.
SmallestRecord == FrameOverhead + KeyLen("a") + ValLen("v1")

\* A file is the sequence of the records appended to it.
entry(k, v) == [key |-> k, value |-> v]

RECURSIVE FileSize(_)
FileSize(f) ==
    IF f = <<>> THEN 0
    ELSE EncodedLen(Head(f).key, Head(f).value) + FileSize(Tail(f))

\* Byte offset at which record i of file f begins.
OffsetOf(f, i) == FileSize(SubSeq(f, 1, i - 1))

\* DecodeFromReader after Seek(position): at a record boundary exactly that
\* record is decoded; at or past the end of the file it reports end of
\* stream; inside a frame the bytes that follow are not a frame and the
\* decode fails.
DecodeFromReader(f, position) ==
    IF \E i \in 1..Len(f) : OffsetOf(f, i) = position /\ f[i] # Partial
    THEN f[CHOOSE i \in 1..Len(f) : OffsetOf(f, i) = position].value
    ELSE DecodeErr

\* ------------------------------------------------------------------- state
VARIABLES
    \* the directory db.dir
    curExists,      \* the path current-data exists
    curFile,        \* its records
    segFile,        \* segment-<n> files: suffix n |-> records
    tmpExists,      \* a temp-merged-<n> file exists
    tmpFile,        \* its records
    clock,          \* the last value time.Now().UnixNano() returned
    \* type Db
    index,          \* db.index: key |-> offset, NoPos when absent
    segments,       \* db.segments: sequence of suffixes
    outOffset,      \* db.outOffset
    outOpen,        \* db.out is an open handle
    indexMu,        \* db.indexMu held exclusively by MergeSegments
    writeQueue,     \* db.writeQueue
    shutdown,       \* db.shutdown is closed
    \* goroutine writerLoop
    wpc, wreq, wdrain,
    wseg,           \* segmentName of the running rotateSegment
    \* callers of Put
    ppc, preq, presp, pret,
    \* a caller of Get
    rpc, rkey, rpos, rsegs, ri, rret,
    \* a caller of Size
    spc, sret,
    \* a caller of MergeSegments
    mpc, mNewIndex, mNew, mret,
    \* a caller of Close and of OpenWithSegmentSize
    cpc,
    \* the calls are issued one after another (TRUE) or concurrently
    sequential,
    maxSegmentSize, \* db.maxSegmentSize
    oret,           \* what the last OpenWithSegmentSize returned
    faults,         \* crashes and I/O faults so far
    \* history
    puts, merges, opens,   \* calls made so far
    lastPut,        \* key |-> value of the last Put performWrite completed
    everPut,        \* key |-> values passed to Put so far
    enqueued,       \* the requests sent on writeQueue, in order: id, and whether
                    \* db.shutdown was still open when the request was sent
    applied,        \* ids of the requests appended to the current file, in order
    rallowed,       \* what the running Get may return (prior value, in-flight values)
    rexpect,        \* lastPut[rkey] when the running Get started
    wrotated,       \* the running performWrite called rotateSegment
    wBefore,        \* key |-> result of Get when the running performWrite started
    wOffsetBefore,  \* db.outOffset when the running performWrite started
    mBefore,        \* key |-> result of Get when the running MergeSegments started
    mSegsBefore     \* db.segments when the running MergeSegments started

VARIABLES
    \* the load balancer (cmd/lb)
    trafficMap,     \* server |-> its trafficStat
    lpc,            \* where the frontend handler is: idle, range, done
    pending,        \* servers the range over trafficMap has not visited yet
    bestServer,     \* the handler's bestServer
    minTraffic,     \* the handler's minTraffic
    lbStatus,       \* what the handler answered
    lbTarget        \* the server the request was forwarded to

dirVars == <<curExists, curFile, segFile, tmpExists, tmpFile, clock>>
dbVars == <<index, segments, outOffset, outOpen, indexMu, writeQueue, shutdown>>
writerVars == <<wpc, wreq, wdrain, wseg>>
putVars == <<ppc, preq, presp, pret>>
getVars == <<rpc, rkey, rpos, rsegs, ri, rret>>
mergeVars == <<mpc, mNewIndex, mNew, mret>>
sizeVars == <<spc, sret>>
histVars == <<puts, merges, opens, lastPut, everPut, enqueued, applied,
              rallowed, rexpect, wrotated, wBefore, wOffsetBefore, mBefore, mSegsBefore>>
storeVars == <<dirVars, dbVars, writerVars, putVars, getVars, mergeVars, sizeVars, cpc,
               sequential, maxSegmentSize, oret, faults, histVars>>
lbVars == <<trafficMap, lpc, pending, bestServer, minTraffic, lbStatus, lbTarget>>
vars == <<storeVars, lbVars>>

\* ----------------------------------------------------------------- helpers
\* db.getCurrentFileSize / db.Size: Stat on db.out.
getCurrentFileSize == FileSize(curFile)

\* What Stat reports on a closed handle: an error and no size.
StatFailed == -1

\* A Size that adds up every data file of the directory.
SizeOfDirectory ==
    LET RECURSIVE SumOfSizes(_)
        SumOfSizes(names) ==
            IF names = {} THEN 0
            ELSE LET n == CHOOSE x \in names : TRUE
                 IN  FileSize(segFile[n]) + SumOfSizes(names \ {n})
    IN  IF outOpen THEN FileSize(curFile) + SumOfSizes(DOMAIN segFile)
        ELSE StatFailed

\* db.Size: Stat on db.out, the handle of the current file.
Size == IF outOpen THEN FileSize(curFile) ELSE StatFailed

\* os.Rename(old, segment-<t>): the file appears under the new name and
\* replaces whatever had that name.
Rename(files, t, content) ==
    [n \in DOMAIN files \cup {t} |-> IF n = t THEN content ELSE files[n]]

\* os.Remove of each name of the sequence names; a missing file is ignored.
RemoveAll(files, names) ==
    [n \in DOMAIN files \ {names[i] : i \in DOMAIN names} |-> files[n]]

\* db.getFromFile(path, position): Open, Seek, DecodeFromReader.
getFromFile(exists, f, position) ==
    IF ~exists THEN DecodeErr ELSE DecodeFromReader(f, position)

getFromSegment(files, name, position) ==
    IF name \in DOMAIN files THEN getFromFile(TRUE, files[name], position)
    ELSE getFromFile(FALSE, <<>>, position)

\* The loop of Get over the snapshot of db.segments, newest first, from
\* segs[i] down: the first file that decodes answers, else ErrNotFound.
RECURSIVE ProbeSegments(_, _, _, _)
ProbeSegments(files, segs, i, position) ==
    IF i = 0 THEN NotFound
    ELSE IF getFromSegment(files, segs[i], position) # DecodeErr
         THEN getFromSegment(files, segs[i], position)
         ELSE ProbeSegments(files, segs, i - 1, position)

\* What Get(k) returns when it runs alone against the given state.
Get(idx, segs, exists, cur, files, k) ==
    IF idx[k] = NoPos THEN NotFound
    ELSE IF getFromFile(exists, cur, idx[k]) # DecodeErr
         THEN getFromFile(exists, cur, idx[k])
         ELSE ProbeSegments(files, segs, Len(segs), idx[k])

GetNow == [k \in Keys |-> Get(index, segments, curExists, curFile, segFile, k)]

\* ---------------------------------------------------------------- recovery
\* extractSegmentNumber: the number after "segment-"; a segment's name is
\* kept here as that number.
extractSegmentNumber(name) == name

\* The segment names with the largest number first.
RECURSIVE SortSegmentsDescending(_)
SortSegmentsDescending(names) ==
    IF names = {} THEN <<>>
    ELSE LET most == CHOOSE n \in names :
                         \A m \in names : extractSegmentNumber(n) >= extractSegmentNumber(m)
         IN  <<most>> \o SortSegmentsDescending(names \ {most})

\* sort.Slice of the segment names by extractSegmentNumber, ascending.
RECURSIVE SortSegments(_)
SortSegments(names) ==
    IF names = {} THEN <<>>
    ELSE LET least == CHOOSE n \in names :
                          \A m \in names : extractSegmentNumber(n) <= extractSegmentNumber(m)
         IN  <<least>> \o SortSegments(names \ {least})

\* The walk of recoverFromFile, recoverFromCurrentFile and
\* rebuildCurrentIndex: index[record.key] = offset for every record of f in
\* order, so the last record of a key decides; other keys are left alone.
recoverFromFile(idx, f) ==
    [k \in Keys |->
        IF \E i \in 1..Len(f) : f[i].key = k
        THEN OffsetOf(f, CHOOSE i \in 1..Len(f) :
                            /\ f[i].key = k
                            /\ \A j \in (i + 1)..Len(f) : f[j].key # k)
        ELSE idx[k]]

RECURSIVE recoverSegments(_, _, _, _)
recoverSegments(idx, files, segs, i) ==
    IF i > Len(segs) THEN idx
    ELSE recoverSegments(recoverFromFile(idx, files[segs[i]]), files, segs, i + 1)

\* An index read without the ok of the map lookup: the zero position for
\* a key it does not hold.
EmptyIndexZeroed == [k \in Keys |-> 0]
\* make(hashIndex): no key has a position.
EmptyIndex == [k \in Keys |-> NoPos]

\* A walk that never looks at the bytes consumed before the end of stream.
CorruptedUnnoticed(f) == FALSE

\* recoverFromFile and recoverFromCurrentFile: DecodeFromReader reports the
\* end of the stream after consuming bytes (n != 0).
Corrupted(f) == f # <<>> /\ f[Len(f)] = Partial

\* What db.recover returns: the error of the first file, segments in sorted
\* order and then the current file, whose walk fails.
recoverError(files, cur) ==
    LET bad == {n \in DOMAIN files : Corrupted(files[n])}
    IN  IF bad # {}
        THEN CorruptedFile(Segment(CHOOSE n \in bad : \A m \in bad : n <= m))
        ELSE IF Corrupted(cur) THEN CorruptedFile(CurrentData) ELSE OpenOk

\* db.recover: the segments in sorted order, then the current file.
recover(files, cur) ==
    recoverFromFile(recoverSegments(EmptyIndex, files, SortSegments(DOMAIN files), 1), cur)

\* ------------------------------------------------------------------- start
NoReq == [key |-> "a", value |-> "v1", from |-> 1, id |-> 0, early |-> FALSE]
NoOutcomes == [k \in Keys |-> None]

\* ------------------------------------------------------------ load balancer
serversPool == {"server1:8080", "server2:8080", "server3:8080"}
NoServer == ""
\* The totals a report can give: the sum of the strconv.Atoi values of its
\* "responses", which are whatever the backend sent.
Totals == -1..MaxTraffic
\* What the frontend handler answers.
Forwarded == "forwarded"
Unavailable == "503 No healthy servers available"

\* main: every server starts with no traffic and not healthy; no request is
\* being handled.
InitLb ==
    /\ trafficMap = [server \in serversPool |-> [Traffic |-> 0, Healthy |-> FALSE]]
    /\ lpc = "idle" /\ pending = {}
    /\ bestServer = NoServer /\ minTraffic = -1
    /\ lbStatus = None /\ lbTarget = NoServer

\* The state OpenWithSegmentSize returns on a directory that did not exist.
InitCommon ==
    /\ curExists = TRUE /\ curFile = <<>> /\ segFile = <<>>
    /\ tmpExists = FALSE /\ tmpFile = <<>>
    /\ clock = 0
    /\ index = recover(segFile, curFile)
    /\ segments = SortSegments(DOMAIN segFile)
    /\ outOffset = FileSize(curFile)
    /\ outOpen = TRUE
    /\ indexMu = FALSE
    /\ writeQueue = <<>>
    /\ shutdown = FALSE
    /\ wpc = "loop" /\ wreq = NoReq /\ wdrain = FALSE /\ wseg = 0
    /\ ppc = [p \in Putters |-> "idle"]
    /\ preq = [p \in Putters |-> NoReq]
    /\ presp = [p \in Putters |-> None]
    /\ pret = [p \in Putters |-> None]
    /\ rpc = "idle" /\ rkey = "a" /\ rpos = NoPos /\ rsegs = <<>> /\ ri = 0
    /\ rret = None
    /\ spc = "idle" /\ sret = None
    /\ mpc = "idle" /\ mNewIndex = EmptyIndex /\ mNew = 0 /\ mret = None
    /\ cpc = "open" /\ oret = OpenOk /\ faults = 0
    /\ puts = 0 /\ merges = 0 /\ opens = 0
    /\ lastPut = [k \in Keys |-> None]
    /\ everPut = [k \in Keys |-> {}]
    /\ enqueued = <<>> /\ applied = <<>>
    /\ rallowed = {} /\ rexpect = None
    /\ wrotated = FALSE /\ wBefore = NoOutcomes /\ wOffsetBefore = 0 /\ mBefore = NoOutcomes /\ mSegsBefore = <<>>

\* Calls made by goroutines running side by side (the HTTP handlers).
Init == InitCommon /\ InitLb /\ sequential = FALSE /\ maxSegmentSize = MaxSegmentSize
\* Calls made one after another by a single caller (the package's tests).
InitSeq == InitCommon /\ InitLb /\ sequential = TRUE /\ maxSegmentSize = MaxSegmentSize
\* The same caller on an engine opened with a small maxSegmentSize.
InitSmallSeg == InitCommon /\ InitLb /\ sequential = TRUE /\ maxSegmentSize = SmallSegmentSize

\* Goroutines running side by side on an engine opened with a small
\* maxSegmentSize.
InitSmallConc == InitCommon /\ InitLb /\ sequential = FALSE /\ maxSegmentSize = SmallSegmentSize

\* No call is running and the writer has nothing to do.
Quiescent ==
    /\ \A p \in Putters : ppc[p] = "idle"
    /\ rpc = "idle"
    /\ spc = "idle"
    /\ mpc = "idle"
    /\ cpc \in {"open", "closed"}
    /\ wpc \in {"loop", "exited"}
    /\ writeQueue = <<>>

MayCall == sequential => Quiescent

\* Calls of Put a run makes at most.
PutBudget == IF sequential THEN MaxPuts ELSE MaxConcPuts

\* --------------------------------------------------------------------- Put
\* The callers of Put are interchangeable: the second one is needed only
\* while the first is inside a call.
MayPut(p) ==
    /\ ppc[p] = "idle" /\ MayCall /\ puts < PutBudget
    /\ \A q \in Putters : q < p => ppc[q] # "idle"

\* Put, the case db.writeQueue <- req of its select.
PutSend(p, k, v) ==
    /\ MayPut(p)
    /\ Len(writeQueue) < QueueCap
    /\ LET req == [key |-> k, value |-> v, from |-> p, id |-> puts + 1,
                   early |-> ~shutdown]
       IN  /\ writeQueue' = Append(writeQueue, req)
           /\ preq' = [preq EXCEPT ![p] = req]
           /\ enqueued' = Append(enqueued, [id |-> req.id, early |-> req.early])
    /\ ppc' = [ppc EXCEPT ![p] = "waiting"]
    /\ puts' = puts + 1
    /\ everPut' = [everPut EXCEPT ![k] = @ \cup {v}]
    /\ rallowed' = IF rpc \in {"current", "probe"} /\ rkey = k
                   THEN rallowed \cup {v, IF lastPut[k] = None THEN NotFound ELSE lastPut[k]}
                   ELSE rallowed
    /\ UNCHANGED <<dirVars, index, segments, outOffset, outOpen, indexMu, shutdown,
                   writerVars, presp, pret, getVars, mergeVars, cpc, sequential, sizeVars, lbVars, maxSegmentSize, faults, oret,
                   merges, opens, lastPut, applied, rexpect, wrotated, wBefore, wOffsetBefore, mBefore, mSegsBefore>>

\* Put, the case <-db.shutdown of its select: the error is returned.
PutShutdown(p, k, v) ==
    /\ MayPut(p)
    /\ shutdown
    /\ pret' = [pret EXCEPT ![p] = ErrClosed]
    /\ ppc' = [ppc EXCEPT ![p] = "done"]
    /\ puts' = puts + 1
    /\ everPut' = [everPut EXCEPT ![k] = @ \cup {v}]
    /\ UNCHANGED <<dirVars, dbVars, writerVars, preq, presp, getVars, mergeVars, cpc,
                   sequential, sizeVars, lbVars, maxSegmentSize, faults, oret, merges, opens, lastPut, enqueued, applied,
                   rallowed, rexpect, wrotated, wBefore, wOffsetBefore, mBefore, mSegsBefore>>

\* Put, return <-response.
PutReturn(p) ==
    /\ ppc[p] = "waiting" /\ presp[p] # None
    /\ pret' = [pret EXCEPT ![p] = presp[p]]
    /\ ppc' = [ppc EXCEPT ![p] = "done"]
    /\ preq' = [preq EXCEPT ![p] = NoReq]
    /\ presp' = [presp EXCEPT ![p] = None]
    /\ UNCHANGED <<dirVars, dbVars, writerVars, getVars, mergeVars, cpc,
                   sequential, sizeVars, lbVars, maxSegmentSize, faults, oret, histVars>>

\* The caller has taken what Put returned and may call again.
PutDone(p) ==
    /\ ppc[p] = "done"
    /\ ppc' = [ppc EXCEPT ![p] = "idle"]
    /\ pret' = [pret EXCEPT ![p] = None]
    /\ UNCHANGED <<dirVars, dbVars, writerVars, preq, presp, getVars, mergeVars, cpc,
                   sequential, sizeVars, lbVars, maxSegmentSize, faults, oret, histVars>>

\* A receive that takes the request sent last instead of the oldest one.
NextRequestNewest(q) == q[Len(q)]

\* -------------------------------------------------------------- writerLoop
\* The queue discipline of the channel: the writer receives its oldest
\* request.
NextRequest(q) == Head(q)

\* What the receive leaves in the channel.
RestOfQueue(q) == Tail(q)

\* The test of performWrite for rotating before the append.
MustRotateAtLimit(currentSize, encodedLen) ==
    currentSize + encodedLen >= maxSegmentSize
MustRotate(currentSize, encodedLen) == currentSize + encodedLen > maxSegmentSize

\* case req := <-db.writeQueue, of the outer select and of the draining one,
\* and performWrite up to its decision to rotate (getCurrentFileSize,
\* Encode, the comparison with db.maxSegmentSize).
WriterReceive ==
    /\ wpc = "loop" /\ writeQueue # <<>>
    /\ outOpen
    /\ LET req == NextRequest(writeQueue)
       IN  /\ wreq' = req
           /\ wpc' = IF MustRotate(getCurrentFileSize, EncodedLen(req.key, req.value))
                     THEN "rotate" ELSE "write"
    /\ writeQueue' = RestOfQueue(writeQueue)
    /\ wrotated' = FALSE
    /\ wBefore' = GetNow /\ wOffsetBefore' = outOffset
    /\ UNCHANGED <<dirVars, index, segments, outOffset, outOpen, indexMu, shutdown,
                   wdrain, wseg, putVars, getVars, mergeVars, cpc, sequential, sizeVars, lbVars, maxSegmentSize, faults, oret,
                   puts, merges, opens, lastPut, everPut, enqueued, applied,
                   rallowed, rexpect, mBefore, mSegsBefore>>

\* case <-db.shutdown of the outer select.
WriterShutdown ==
    /\ wpc = "loop" /\ ~wdrain /\ shutdown
    /\ wdrain' = TRUE
    /\ UNCHANGED <<dirVars, dbVars, wpc, wreq, wseg, putVars, getVars, mergeVars, cpc,
                   sequential, sizeVars, lbVars, maxSegmentSize, faults, oret, histVars>>

\* A draining loop that returns without looking at the queue.
DrainDoneUnchecked(q) == TRUE

\* The writer may return from the draining loop.
DrainDone(q) == q = <<>>

\* default: return, of the draining select; the deferred db.wg.Done().
WriterExit ==
    /\ wpc = "loop" /\ wdrain /\ DrainDone(writeQueue)
    /\ wpc' = "exited"
    /\ UNCHANGED <<dirVars, dbVars, wreq, wdrain, wseg, putVars, getVars, mergeVars, cpc,
                   sequential, sizeVars, lbVars, maxSegmentSize, faults, oret, histVars>>

\* The values a reading of time.Now().UnixNano() can give after the reading
\* that gave last: the wall clock is read twice within one of its ticks, or
\* it has advanced.  Time is counted from the first reading, which gives 1.
Now(last) == IF last = 0 THEN {1} ELSE {last, last + 1}

\* rotateSegment: db.out.Close() and os.Rename(current-data, segment-<now>).
RotateRename ==
    /\ wpc = "rotate"
    /\ \E t \in Now(clock) :
        /\ clock' = t
        /\ segFile' = Rename(segFile, t, curFile)
        /\ wseg' = t
    /\ curExists' = FALSE
    /\ curFile' = <<>>
    /\ outOpen' = FALSE
    /\ wrotated' = TRUE
    /\ wpc' = "rotate_append"
    /\ UNCHANGED <<tmpExists, tmpFile, index, segments, outOffset, indexMu, writeQueue,
                   shutdown, wreq, wdrain, putVars, getVars, mergeVars, cpc,
                   sequential, sizeVars, lbVars, maxSegmentSize, faults, oret, puts, merges, opens, lastPut, everPut, enqueued, applied,
                   rallowed, rexpect, wBefore, wOffsetBefore, mBefore, mSegsBefore>>

\* rotateSegment: db.segments = append(db.segments, segmentName), under
\* db.indexMu.
RotateAppend ==
    /\ wpc = "rotate_append" /\ ~indexMu
    /\ segments' = Append(segments, wseg)
    /\ wpc' = "rotate_open"
    /\ UNCHANGED <<dirVars, index, outOffset, outOpen, indexMu, writeQueue, shutdown,
                   wreq, wseg, wdrain, putVars, getVars, mergeVars, cpc, sequential, sizeVars, lbVars, maxSegmentSize, faults, oret, histVars>>

\* A rotation that opens the new current-data and keeps the old offset.
RotateOpenKeepsOffset ==
    /\ wpc = "rotate_open"
    /\ curExists' = TRUE /\ curFile' = <<>>
    /\ outOpen' = TRUE
    /\ outOffset' = outOffset
    /\ wpc' = "write"
    /\ UNCHANGED <<segFile, tmpExists, tmpFile, clock, index, segments, indexMu,
                   writeQueue, shutdown, wreq, wdrain, wseg, putVars, getVars, mergeVars, cpc,
                   sequential, sizeVars, lbVars, maxSegmentSize, faults, oret, histVars>>
\* rotateSegment: a fresh current-data is created; db.out = f,
\* db.outOffset = 0.
RotateOpen ==
    /\ wpc = "rotate_open"
    /\ curExists' = TRUE /\ curFile' = <<>>
    /\ outOpen' = TRUE
    /\ outOffset' = 0
    /\ wpc' = "write"
    /\ UNCHANGED <<segFile, tmpExists, tmpFile, clock, index, segments, indexMu,
                   writeQueue, shutdown, wreq, wdrain, wseg, putVars, getVars, mergeVars, cpc,
                   sequential, sizeVars, lbVars, maxSegmentSize, faults, oret, histVars>>

\* performWrite: db.out.Write(encodedEntry).
PerformWriteAppend ==
    /\ wpc = "write"
    /\ curFile' = Append(curFile, entry(wreq.key, wreq.value))
    /\ applied' = Append(applied, wreq.id)
    /\ wpc' = "publish"
    /\ UNCHANGED <<curExists, segFile, tmpExists, tmpFile, clock, dbVars, wreq, wdrain,
                   wseg, putVars, getVars, mergeVars, cpc, sequential, sizeVars, lbVars, maxSegmentSize, faults, oret,
                   puts, merges, opens, lastPut, everPut, enqueued,
                   rallowed, rexpect, wrotated, wBefore, wOffsetBefore, mBefore, mSegsBefore>>

\* performWrite: db.index[key] = db.outOffset under db.indexMu,
\* db.outOffset += n, return nil; then req.response <- err.
PerformWritePublish ==
    /\ wpc = "publish" /\ ~indexMu
    /\ index' = [index EXCEPT ![wreq.key] = outOffset]
    /\ outOffset' = outOffset + EncodedLen(wreq.key, wreq.value)
    /\ presp' = [presp EXCEPT ![wreq.from] = Ok]
    /\ lastPut' = [lastPut EXCEPT ![wreq.key] = wreq.value]
    /\ wpc' = "loop"
    /\ wreq' = NoReq /\ wseg' = 0
    /\ wrotated' = FALSE /\ wBefore' = NoOutcomes /\ wOffsetBefore' = 0
    /\ UNCHANGED <<dirVars, segments, outOpen, indexMu, writeQueue, shutdown,
                   wdrain, ppc, preq, pret, getVars, mergeVars, cpc, sequential, sizeVars, lbVars, maxSegmentSize, faults, oret,
                   puts, merges, opens, everPut, enqueued, applied,
                   rallowed, rexpect, mBefore, mSegsBefore>>

\* --------------------------------------------------------------------- Get
\* Get: the lookup and the copy of db.segments under db.indexMu.RLock, and
\* the return of ErrNotFound for a key the index does not hold.
GetSnapshot(k) ==
    /\ rpc = "idle" /\ MayCall /\ ~indexMu
    /\ rkey' = k
    /\ rpos' = index[k]
    /\ rsegs' = IF index[k] = NoPos THEN <<>> ELSE segments
    /\ ri' = IF index[k] = NoPos THEN 0 ELSE Len(segments)
    /\ rpc' = IF index[k] = NoPos THEN "done" ELSE "current"
    /\ rret' = IF index[k] = NoPos THEN NotFound ELSE None
    /\ rexpect' = lastPut[k]
    /\ rallowed' = {IF lastPut[k] = None THEN NotFound ELSE lastPut[k]}
                   \cup {preq[p].value : p \in {q \in Putters : ppc[q] = "waiting" /\ preq[q].key = k}}
    /\ UNCHANGED <<dirVars, dbVars, writerVars, putVars, mergeVars, cpc, sequential, sizeVars, lbVars, maxSegmentSize, faults, oret,
                   puts, merges, opens, lastPut, everPut, enqueued, applied,
                   wrotated, wBefore, wOffsetBefore, mBefore, mSegsBefore>>

\* The file Get reads first: db.getFromFile(db.out.Name(), position).
ReadFirst(position) == getFromFile(curExists, curFile, position)

\* Get: the read at position in the file named current-data.
GetCurrent ==
    /\ rpc = "current"
    /\ IF ReadFirst(rpos) # DecodeErr
       THEN rret' = ReadFirst(rpos) /\ rpc' = "done"
            /\ rpos' = NoPos /\ rsegs' = <<>> /\ ri' = 0
       ELSE rret' = rret /\ rpc' = "probe" /\ UNCHANGED <<rpos, rsegs, ri>>
    /\ UNCHANGED <<dirVars, dbVars, writerVars, putVars, rkey, mergeVars, cpc,
                   sequential, sizeVars, lbVars, maxSegmentSize, faults, oret, histVars>>

\* Get: one turn of the loop over the copied segments, newest first.
GetProbe ==
    /\ rpc = "probe" /\ ri >= 1
    /\ IF getFromSegment(segFile, rsegs[ri], rpos) # DecodeErr
       THEN rret' = getFromSegment(segFile, rsegs[ri], rpos) /\ rpc' = "done"
            /\ rpos' = NoPos /\ rsegs' = <<>> /\ ri' = 0
       ELSE rret' = rret /\ rpc' = "probe" /\ ri' = ri - 1 /\ UNCHANGED <<rpos, rsegs>>
    /\ UNCHANGED <<dirVars, dbVars, writerVars, putVars, rkey, mergeVars, cpc,
                   sequential, sizeVars, lbVars, maxSegmentSize, faults, oret, histVars>>

\* Get: no file decoded at position, return ErrNotFound.
GetNotFound ==
    /\ rpc = "probe" /\ ri = 0
    /\ rret' = NotFound
    /\ rpc' = "done" /\ rpos' = NoPos /\ rsegs' = <<>>
    /\ UNCHANGED <<dirVars, dbVars, writerVars, putVars, rkey, ri, mergeVars, cpc,
                   sequential, sizeVars, lbVars, maxSegmentSize, faults, oret, histVars>>

\* The caller has taken what Get returned and may call again.
GetDone ==
    /\ rpc = "done"
    /\ rpc' = "idle" /\ rkey' = "a" /\ rpos' = NoPos /\ rsegs' = <<>> /\ ri' = 0
    /\ rret' = None
    /\ rallowed' = {} /\ rexpect' = None
    /\ UNCHANGED <<dirVars, dbVars, writerVars, putVars, mergeVars, cpc, sequential, sizeVars, lbVars, maxSegmentSize, faults, oret,
                   puts, merges, opens, lastPut, everPut, enqueued, applied,
                   wrotated, wBefore, wOffsetBefore, mBefore, mSegsBefore>>

\* -------------------------------------------------------------------- Size
\* Size: db.out.Stat() and the return of its size or its error; db.indexMu
\* is not taken.
SizeCall ==
    /\ spc = "idle" /\ MayCall
    /\ sret' = Size
    /\ spc' = "done"
    /\ UNCHANGED <<dirVars, dbVars, writerVars, putVars, getVars, mergeVars, cpc,
                   sequential, lbVars, maxSegmentSize, faults, oret, histVars>>

\* The caller has taken what Size returned and may call again.
SizeDone ==
    /\ spc = "done"
    /\ spc' = "idle" /\ sret' = None
    /\ UNCHANGED <<dirVars, dbVars, writerVars, putVars, getVars, mergeVars, cpc,
                   sequential, lbVars, maxSegmentSize, faults, oret, histVars>>

\* ----------------------------------------------------------- MergeSegments
\* A walk that keeps the value a key already has in data.
readSegmentKeepingFirst(data, f) ==
    [k \in Keys |->
        IF data[k] # None THEN data[k]
        ELSE IF \E i \in 1..Len(f) : f[i].key = k
             THEN f[CHOOSE i \in 1..Len(f) :
                       /\ f[i].key = k
                       /\ \A j \in 1..(i - 1) : f[j].key # k].value
             ELSE data[k]]

\* readSegmentIntoMap: data[record.key] = record.value for every record of f
\* in order.
readSegmentIntoMap(data, f) ==
    [k \in Keys |->
        IF \E i \in 1..Len(f) : f[i].key = k
        THEN f[CHOOSE i \in 1..Len(f) :
                  /\ f[i].key = k
                  /\ \A j \in (i + 1)..Len(f) : f[j].key # k].value
        ELSE data[k]]

\* The loop of MergeSegments over db.segments, in the order of the list.
RECURSIVE mergedData(_, _, _, _)
mergedData(data, files, segs, i) ==
    IF i > Len(segs) THEN data
    ELSE mergedData(readSegmentIntoMap(data, files[segs[i]]), files, segs, i + 1)

\* The orders in which "for key, value := range mergedData" can visit the
\* keys of the map: Go leaves the order of a map iteration unspecified.
RangeOrders(keys) ==
    {o \in [1..Cardinality(keys) -> keys] : \A i, j \in DOMAIN o : o[i] = o[j] => i = j}

\* The records MergeSegments writes to the temporary file, in order.
MergedFile(data, order) == [i \in DOMAIN order |-> entry(order[i], data[order[i]])]

\* newIndex: the offset at which each key's record begins in the merged file.
NewIndex(f) == recoverFromFile(EmptyIndex, f)

\* MergeSegments with fewer than two segments: return nil.
MergeNothing ==
    /\ mpc = "idle" /\ MayCall /\ merges < MaxMerges
    /\ ~indexMu
    /\ Len(segments) < 2
    /\ mpc' = "done" /\ mret' = Ok
    /\ merges' = merges + 1
    /\ mBefore' = GetNow /\ mSegsBefore' = segments
    /\ UNCHANGED <<dirVars, dbVars, writerVars, putVars, getVars, mNewIndex, mNew, cpc,
                   sequential, sizeVars, lbVars, maxSegmentSize, faults, oret, puts, opens, lastPut, everPut, enqueued, applied,
                   rallowed, rexpect, wrotated, wBefore, wOffsetBefore>>

\* A MergeSegments that goes on with a single segment.
MergeLockFromOne ==
    /\ mpc = "idle" /\ MayCall /\ merges < MaxMerges
    /\ ~indexMu
    /\ Len(segments) >= 1
    /\ indexMu' = TRUE
    /\ mpc' = "fill" /\ mret' = None
    /\ merges' = merges + 1
    /\ mBefore' = GetNow /\ mSegsBefore' = segments
    /\ UNCHANGED <<dirVars, index, segments, outOffset, outOpen, writeQueue, shutdown,
                   writerVars, putVars, getVars, mNewIndex, mNew, cpc,
                   sequential, sizeVars, lbVars, maxSegmentSize, faults, oret, puts, opens, lastPut, everPut, enqueued, applied,
                   rallowed, rexpect, wrotated, wBefore, wOffsetBefore>>

\* MergeSegments: db.indexMu.Lock() with two segments or more.
MergeLock ==
    /\ mpc = "idle" /\ MayCall /\ merges < MaxMerges
    /\ ~indexMu
    /\ Len(segments) >= 2
    /\ indexMu' = TRUE
    /\ mpc' = "fill" /\ mret' = None
    /\ merges' = merges + 1
    /\ mBefore' = GetNow /\ mSegsBefore' = segments
    /\ UNCHANGED <<dirVars, index, segments, outOffset, outOpen, writeQueue, shutdown,
                   writerVars, putVars, getVars, mNewIndex, mNew, cpc,
                   sequential, sizeVars, lbVars, maxSegmentSize, faults, oret, puts, opens, lastPut, everPut, enqueued, applied,
                   rallowed, rexpect, wrotated, wBefore, wOffsetBefore>>

\* MergeSegments: the temporary file is created, the segments are read into
\* mergedData and written out, Sync and Close.  (The clock reading that names
\* the temporary file names no segment; Now lets the next reading repeat the
\* last one whether or not this one came between.)
MergeFill ==
    /\ mpc = "fill"
    /\ \A i \in DOMAIN segments : segments[i] \in DOMAIN segFile
    /\ LET data == mergedData([k \in Keys |-> None], segFile, segments, 1)
       IN  \E order \in RangeOrders({k \in Keys : data[k] # None}) :
              /\ tmpFile' = MergedFile(data, order)
              /\ mNewIndex' = NewIndex(MergedFile(data, order))
    /\ tmpExists' = TRUE
    /\ mpc' = "rename"
    /\ UNCHANGED <<curExists, curFile, segFile, clock, dbVars, writerVars, putVars,
                   getVars, mNew, mret, cpc, sequential, sizeVars, lbVars, maxSegmentSize, faults, oret, histVars>>

\* MergeSegments: readSegmentIntoMap cannot open a listed segment; the error
\* is returned and the deferred function removes the temporary file.
MergeFillFails ==
    /\ mpc = "fill"
    /\ \E i \in DOMAIN segments : segments[i] \notin DOMAIN segFile
    /\ indexMu' = FALSE
    /\ mpc' = "done" /\ mret' = "open segment: no such file"
    /\ UNCHANGED <<dirVars, index, segments, outOffset, outOpen, writeQueue, shutdown,
                   writerVars, putVars, getVars, mNewIndex, mNew, cpc, sequential, sizeVars, lbVars, maxSegmentSize, faults, oret,
                   histVars>>

\* MergeSegments: os.Rename(tempMergedPath, segment-<now>).
MergeRename ==
    /\ mpc = "rename"
    /\ \E t \in Now(clock) :
        /\ clock' = t
        /\ mNew' = t
        /\ segFile' = Rename(segFile, t, tmpFile)
    /\ tmpExists' = FALSE /\ tmpFile' = <<>>
    /\ mpc' = "cleanup"
    /\ UNCHANGED <<curExists, curFile, dbVars, writerVars, putVars, getVars,
                   mNewIndex, mret, cpc, sequential, sizeVars, lbVars, maxSegmentSize, faults, oret, histVars>>

\* The list of segments MergeSegments leaves in db.segments.
MergedSegments(newSegmentName) == <<newSegmentName>>

\* MergeSegments: os.Remove of every old segment, errors ignored, and
\* db.segments = []string{newSegmentName}.
MergeCleanup ==
    /\ mpc = "cleanup"
    /\ segFile' = RemoveAll(segFile, segments)
    /\ segments' = MergedSegments(mNew)
    /\ mpc' = "reindex"
    /\ UNCHANGED <<curExists, curFile, tmpExists, tmpFile, clock, index, outOffset,
                   outOpen, indexMu, writeQueue, shutdown, writerVars, putVars, getVars,
                   mNewIndex, mNew, mret, cpc, sequential, sizeVars, lbVars, maxSegmentSize, faults, oret, histVars>>

\* An index update in which the offsets of the merged segment win.
MergeIndexSegmentsWin(idx, newIndex, currentIndex) ==
    [k \in Keys |->
        IF newIndex[k] # NoPos THEN newIndex[k]
        ELSE IF currentIndex[k] # NoPos THEN currentIndex[k]
        ELSE idx[k]]

\* The two loops that end MergeSegments: a key of newIndex that is not in
\* currentIndex takes its offset in the merged segment, and every key of
\* currentIndex takes its offset in the current file.
MergeIndex(idx, newIndex, currentIndex) ==
    [k \in Keys |->
        IF currentIndex[k] # NoPos THEN currentIndex[k]
        ELSE IF newIndex[k] # NoPos THEN newIndex[k]
        ELSE idx[k]]

\* MergeSegments: rebuildCurrentIndex, the index update, return nil.
MergeReindex ==
    /\ mpc = "reindex" /\ curExists
    /\ index' = MergeIndex(index, mNewIndex, recoverFromFile(EmptyIndex, curFile))
    /\ indexMu' = FALSE
    /\ mpc' = "done" /\ mret' = Ok
    /\ UNCHANGED <<dirVars, segments, outOffset, outOpen, writeQueue, shutdown,
                   writerVars, putVars, getVars, mNewIndex, mNew, cpc, sequential, sizeVars, lbVars, maxSegmentSize, faults, oret,
                   histVars>>

\* An error return of MergeSegments that leaves db.indexMu locked.
MergeReindexFailsLocked ==
    /\ mpc = "reindex" /\ ~curExists
    /\ indexMu' = indexMu
    /\ mpc' = "done" /\ mret' = "open current-data: no such file"
    /\ UNCHANGED <<dirVars, index, segments, outOffset, outOpen, writeQueue, shutdown,
                   writerVars, putVars, getVars, mNewIndex, mNew, cpc, sequential, sizeVars, lbVars, maxSegmentSize, faults, oret,
                   histVars>>

\* MergeSegments: rebuildCurrentIndex cannot open current-data (a rotation
\* has renamed it and not yet created the next one); the error is returned.
MergeReindexFails ==
    /\ mpc = "reindex" /\ ~curExists
    /\ indexMu' = FALSE
    /\ mpc' = "done" /\ mret' = "open current-data: no such file"
    /\ UNCHANGED <<dirVars, index, segments, outOffset, outOpen, writeQueue, shutdown,
                   writerVars, putVars, getVars, mNewIndex, mNew, cpc, sequential, sizeVars, lbVars, maxSegmentSize, faults, oret,
                   histVars>>

\* The caller has taken what MergeSegments returned and may call again.
MergeDone ==
    /\ mpc = "done"
    /\ mpc' = "idle" /\ mNewIndex' = EmptyIndex /\ mNew' = 0 /\ mret' = None
    /\ mBefore' = NoOutcomes /\ mSegsBefore' = <<>>
    /\ UNCHANGED <<dirVars, dbVars, writerVars, putVars, getVars, cpc, sequential, sizeVars, lbVars, maxSegmentSize, faults, oret,
                   puts, merges, opens, lastPut, everPut, enqueued, applied,
                   rallowed, rexpect, wrotated, wBefore, wOffsetBefore>>

\* ---------------------------------------------------------- Close and Open
\* Close: close(db.shutdown).
CloseSignal ==
    /\ cpc = "open" /\ MayCall
    /\ shutdown' = TRUE
    /\ cpc' = "waiting"
    /\ UNCHANGED <<dirVars, index, segments, outOffset, outOpen, indexMu, writeQueue,
                   writerVars, putVars, getVars, mergeVars, sequential, sizeVars, lbVars, maxSegmentSize, faults, oret, histVars>>

\* db.wg.Wait() returns.
WaitReturns(writerPc) == writerPc = "exited"

\* Close: db.wg.Wait() has returned; db.out.Close().
CloseWait ==
    /\ cpc = "waiting" /\ WaitReturns(wpc)
    /\ outOpen' = FALSE
    /\ cpc' = "closed"
    /\ UNCHANGED <<dirVars, index, segments, outOffset, indexMu, writeQueue, shutdown,
                   writerVars, putVars, getVars, mergeVars, sequential, sizeVars, lbVars, maxSegmentSize, faults, oret, histVars>>

\* OpenWithSegmentSize on the directory of a closed engine, by a caller with
\* no call still running on the old one: a new Db, recover, a new writer.
Reopen ==
    /\ cpc = "closed" /\ opens < MaxOpens
    /\ \A p \in Putters : ppc[p] = "idle"
    /\ rpc = "idle" /\ mpc = "idle"
    /\ curExists
    /\ recoverError(segFile, curFile) = OpenOk
    /\ index' = recover(segFile, curFile)
    /\ segments' = SortSegments(DOMAIN segFile)
    /\ outOffset' = FileSize(curFile)
    /\ outOpen' = TRUE
    /\ indexMu' = FALSE
    /\ writeQueue' = <<>>
    /\ shutdown' = FALSE
    /\ wpc' = "loop" /\ wdrain' = FALSE
    /\ cpc' = "open" /\ oret' = OpenOk
    /\ opens' = opens + 1
    /\ UNCHANGED <<dirVars, wreq, wseg, putVars, getVars, mergeVars, sequential, sizeVars, lbVars, maxSegmentSize, faults,
                   puts, merges, lastPut, everPut, enqueued, applied,
                   rallowed, rexpect, wrotated, wBefore, wOffsetBefore, mBefore, mSegsBefore>>

\* The process dies inside MergeSegments while no other call is running:
\* before the rename of the temporary file (the deferred os.Remove never
\* runs) or between the rename and the removal of the old segments.  The
\* directory stays as it is; mpc keeps the place where the merge stopped.
MergeCrash ==
    /\ mpc \in {"rename", "cleanup"} /\ faults < MaxFaults
    /\ \A p \in Putters : ppc[p] = "idle"
    /\ rpc = "idle" /\ wpc = "loop" /\ writeQueue = <<>> /\ cpc = "open"
    /\ faults' = faults + 1
    /\ cpc' = "crashed"
    /\ wpc' = "exited" /\ outOpen' = FALSE
    /\ UNCHANGED <<dirVars, index, segments, outOffset, indexMu, writeQueue, shutdown,
                   wreq, wdrain, wseg, putVars, getVars, mergeVars, sequential, sizeVars, lbVars,
                   maxSegmentSize, oret, puts, merges, opens, lastPut, everPut,
                   enqueued, applied, rallowed, rexpect, wrotated, wBefore, wOffsetBefore, mBefore, mSegsBefore>>

\* OpenWithSegmentSize by a new process on the directory the crash left.
OpenAfterCrash ==
    /\ cpc = "crashed" /\ opens < MaxOpens
    /\ curExists
    /\ recoverError(segFile, curFile) = OpenOk
    /\ index' = recover(segFile, curFile)
    /\ segments' = SortSegments(DOMAIN segFile)
    /\ outOffset' = FileSize(curFile)
    /\ outOpen' = TRUE
    /\ indexMu' = FALSE
    /\ writeQueue' = <<>>
    /\ shutdown' = FALSE
    /\ wpc' = "loop" /\ wdrain' = FALSE
    /\ mpc' = "idle" /\ mNewIndex' = EmptyIndex /\ mNew' = 0 /\ mret' = None
    /\ mBefore' = NoOutcomes /\ mSegsBefore' = <<>>
    /\ cpc' = "open" /\ oret' = OpenOk
    /\ opens' = opens + 1
    /\ UNCHANGED <<dirVars, wreq, wseg, putVars, getVars, sequential, sizeVars, lbVars, maxSegmentSize,
                   faults, puts, merges, lastPut, everPut, enqueued, applied,
                   rallowed, rexpect, wrotated, wBefore, wOffsetBefore>>

\* OpenWithSegmentSize when db.recover returns an error: return nil, err.
\* No writer goroutine is started and the caller gets no Db.
OpenFails ==
    /\ cpc \in {"closed", "crashed"} /\ opens < MaxOpens
    /\ \A p \in Putters : ppc[p] = "idle"
    /\ rpc = "idle"
    /\ curExists
    /\ recoverError(segFile, curFile) # OpenOk
    /\ oret' = recoverError(segFile, curFile)
    /\ cpc' = "failed"
    /\ opens' = opens + 1
    /\ writeQueue' = <<>> /\ shutdown' = FALSE /\ indexMu' = FALSE
    /\ wpc' = "exited" /\ wdrain' = FALSE
    /\ mpc' = "idle" /\ mNewIndex' = EmptyIndex /\ mNew' = 0 /\ mret' = None
    /\ mBefore' = NoOutcomes /\ mSegsBefore' = <<>>
    /\ UNCHANGED <<dirVars, index, segments, outOffset, outOpen, wreq, wseg, putVars,
                   getVars, sequential, sizeVars, lbVars, maxSegmentSize, faults, puts, merges, lastPut,
                   everPut, enqueued, applied, rallowed, rexpect, wrotated, wBefore, wOffsetBefore>>

\* A performWrite that sets db.index[key] before it looks at the error of
\* db.out.Write.
WriteFailsAfterIndexing ==
    /\ wpc = "write" /\ faults < MaxFaults
    /\ \E torn \in BOOLEAN :
        /\ torn => FileSize(curFile) + PartialLen + SmallestRecord > maxSegmentSize
        /\ curFile' = IF torn THEN Append(curFile, Partial) ELSE curFile
    /\ faults' = faults + 1
    /\ index' = [index EXCEPT ![wreq.key] = outOffset]
    /\ presp' = [presp EXCEPT ![wreq.from] = IOFault]
    /\ wpc' = "loop"
    /\ wreq' = NoReq /\ wseg' = 0
    /\ wrotated' = FALSE /\ wBefore' = NoOutcomes /\ wOffsetBefore' = 0
    /\ UNCHANGED <<curExists, segFile, tmpExists, tmpFile, clock, segments, outOffset, outOpen, indexMu, writeQueue, shutdown, wdrain, ppc,
                   preq, pret, getVars, mergeVars, cpc, sequential, sizeVars, lbVars, maxSegmentSize,
                   oret, puts, merges, opens, lastPut, everPut, enqueued, applied,
                   rallowed, rexpect, mBefore, mSegsBefore>>

\* performWrite: db.out.Write fails.  It has written nothing, or the first
\* byte of the record when the file is so full that the next Put rotates;
\* performWrite returns the error with db.index and db.outOffset untouched.
WriteFails ==
    /\ wpc = "write" /\ faults < MaxFaults
    /\ \E torn \in BOOLEAN :
        /\ torn => FileSize(curFile) + PartialLen + SmallestRecord > maxSegmentSize
        /\ curFile' = IF torn THEN Append(curFile, Partial) ELSE curFile
    /\ faults' = faults + 1
    /\ presp' = [presp EXCEPT ![wreq.from] = IOFault]
    /\ wpc' = "loop"
    /\ wreq' = NoReq /\ wseg' = 0
    /\ wrotated' = FALSE /\ wBefore' = NoOutcomes /\ wOffsetBefore' = 0
    /\ UNCHANGED <<curExists, segFile, tmpExists, tmpFile, clock, dbVars, wdrain, ppc,
                   preq, pret, getVars, mergeVars, cpc, sequential, sizeVars, lbVars, maxSegmentSize,
                   oret, puts, merges, opens, lastPut, everPut, enqueued, applied,
                   rallowed, rexpect, mBefore, mSegsBefore>>

\* writerLoop takes a request while db.out is a closed file:
\* getCurrentFileSize fails in db.out.Stat and performWrite returns its error.
WriterReceiveClosed ==
    /\ wpc = "loop" /\ writeQueue # <<>>
    /\ ~outOpen
    /\ LET req == NextRequest(writeQueue)
       IN  presp' = [presp EXCEPT ![req.from] = ErrFileClosed]
    /\ writeQueue' = RestOfQueue(writeQueue)
    /\ UNCHANGED <<dirVars, index, segments, outOffset, outOpen, indexMu, shutdown,
                   wpc, wreq, wdrain, wseg, ppc, preq, pret, getVars, mergeVars, cpc,
                   sequential, sizeVars, lbVars, maxSegmentSize, faults, oret, puts, merges, opens,
                   lastPut, everPut, enqueued, applied, rallowed, rexpect, wrotated,
                   wBefore, wOffsetBefore, mBefore, mSegsBefore>>

\* rotateSegment: db.out.Close() has succeeded and os.Rename fails.
\* rotateSegment returns the error; db.out stays the closed file.
RotateRenameFails ==
    /\ wpc = "rotate" /\ faults < MaxFaults
    /\ faults' = faults + 1
    /\ outOpen' = FALSE
    /\ presp' = [presp EXCEPT ![wreq.from] = IOFault]
    /\ wpc' = "loop"
    /\ wreq' = NoReq /\ wseg' = 0
    /\ wrotated' = FALSE /\ wBefore' = NoOutcomes /\ wOffsetBefore' = 0
    /\ UNCHANGED <<dirVars, index, segments, outOffset, indexMu, writeQueue, shutdown,
                   wdrain, ppc, preq, pret, getVars, mergeVars, cpc, sequential, sizeVars, lbVars,
                   maxSegmentSize, oret, puts, merges, opens, lastPut, everPut,
                   enqueued, applied, rallowed, rexpect, mBefore, mSegsBefore>>

\* rotateSegment: the rename is done, the segment is listed and os.OpenFile
\* of a new current-data fails.  rotateSegment returns the error; db.out
\* stays the closed file and db.outOffset keeps its value.
RotateOpenFails ==
    /\ wpc = "rotate_open" /\ faults < MaxFaults
    /\ faults' = faults + 1
    /\ presp' = [presp EXCEPT ![wreq.from] = IOFault]
    /\ wpc' = "loop"
    /\ wreq' = NoReq /\ wseg' = 0
    /\ wrotated' = FALSE /\ wBefore' = NoOutcomes /\ wOffsetBefore' = 0
    /\ UNCHANGED <<dirVars, dbVars, wdrain, ppc, preq, pret, getVars, mergeVars, cpc,
                   sequential, sizeVars, lbVars, maxSegmentSize, oret, puts, merges, opens, lastPut,
                   everPut, enqueued, applied, rallowed, rexpect, mBefore, mSegsBefore>>

\* The process dies inside db.out.Write, after the first byte of the record
\* has reached the file.
WriteCrash ==
    /\ wpc = "write" /\ faults < MaxFaults /\ cpc = "open"
    /\ curFile' = Append(curFile, Partial)
    /\ faults' = faults + 1
    /\ cpc' = "crashed"
    /\ wpc' = "exited" /\ outOpen' = FALSE
    /\ ppc' = [p \in Putters |-> "idle"]
    /\ preq' = [p \in Putters |-> NoReq]
    /\ presp' = [p \in Putters |-> None]
    /\ pret' = [p \in Putters |-> None]
    /\ writeQueue' = <<>>
    /\ wreq' = NoReq /\ wseg' = 0
    /\ wrotated' = FALSE /\ wBefore' = NoOutcomes /\ wOffsetBefore' = 0
    /\ UNCHANGED <<curExists, segFile, tmpExists, tmpFile, clock, index, segments,
                   outOffset, indexMu, shutdown, wdrain, getVars, mergeVars,
                   sequential, sizeVars, lbVars, maxSegmentSize, oret, puts, merges, opens, lastPut,
                   everPut, enqueued, applied, rallowed, rexpect, mBefore, mSegsBefore>>

\* MergeSegments: os.OpenFile of the temporary file fails; the error is
\* returned and nothing has been made.
MergeCreateFails ==
    /\ mpc = "fill" /\ faults < MaxFaults
    /\ faults' = faults + 1
    /\ indexMu' = FALSE
    /\ mpc' = "done" /\ mret' = IOFault
    /\ UNCHANGED <<dirVars, index, segments, outOffset, outOpen, writeQueue, shutdown,
                   writerVars, putVars, getVars, mNewIndex, mNew, cpc, sequential, sizeVars, lbVars,
                   maxSegmentSize, oret, histVars>>

\* MergeSegments: tempFile.Write or tempFile.Sync fails; the error is
\* returned and the deferred function closes and removes the temporary file.
MergeWriteFails ==
    /\ mpc = "fill" /\ faults < MaxFaults
    /\ \A i \in DOMAIN segments : segments[i] \in DOMAIN segFile
    /\ faults' = faults + 1
    /\ tmpExists' = FALSE /\ tmpFile' = <<>>
    /\ indexMu' = FALSE
    /\ mpc' = "done" /\ mret' = IOFault
    /\ UNCHANGED <<curExists, curFile, segFile, clock, index, segments, outOffset,
                   outOpen, writeQueue, shutdown, writerVars, putVars, getVars, mNewIndex,
                   mNew, cpc, sequential, sizeVars, lbVars, maxSegmentSize, oret, histVars>>

\* MergeSegments: the temporary file is written and synced and
\* tempFile.Close() fails; its result is not looked at and the merge goes on.
MergeCloseFails ==
    /\ mpc = "fill" /\ faults < MaxFaults
    /\ faults' = faults + 1
    /\ \A i \in DOMAIN segments : segments[i] \in DOMAIN segFile
    /\ LET data == mergedData([k \in Keys |-> None], segFile, segments, 1)
       IN  \E order \in RangeOrders({k \in Keys : data[k] # None}) :
              /\ tmpFile' = MergedFile(data, order)
              /\ mNewIndex' = NewIndex(MergedFile(data, order))
    /\ tmpExists' = TRUE
    /\ mpc' = "rename"
    /\ UNCHANGED <<curExists, curFile, segFile, clock, dbVars, writerVars, putVars,
                   getVars, mNew, mret, cpc, sequential, sizeVars, lbVars, maxSegmentSize, oret, histVars>>

\* ------------------------------------------------------------ load balancer
\* One tick of the goroutine of srv: the health check, and for a healthy
\* server the report and its total (the tick ends early when the report
\* cannot be fetched or decoded).  Ticks run between requests here.
UpdateStats(srv, healthy, reported, total) ==
    /\ lpc = "idle"
    /\ trafficMap' = [trafficMap EXCEPT ![srv] =
                         [Traffic |-> IF healthy /\ reported THEN total ELSE @.Traffic,
                          Healthy |-> healthy]]
    /\ UNCHANGED <<storeVars, lpc, pending, bestServer, minTraffic, lbStatus, lbTarget>>

\* The frontend handler starts: bestServer := "", minTraffic := -1, and the
\* range over trafficMap begins.
HandlerBegin ==
    /\ lpc = "idle"
    /\ bestServer' = NoServer /\ minTraffic' = -1
    /\ pending' = serversPool
    /\ lbStatus' = None /\ lbTarget' = NoServer
    /\ lpc' = "range"
    /\ UNCHANGED <<storeVars, trafficMap>>

\* One turn of the range loop (Go leaves the order of a map iteration
\* unspecified).
HandlerVisit(server) ==
    /\ lpc = "range" /\ server \in pending
    /\ LET stat == trafficMap[server]
       IN  IF stat.Healthy /\ (minTraffic = -1 \/ stat.Traffic < minTraffic)
           THEN minTraffic' = stat.Traffic /\ bestServer' = server
           ELSE UNCHANGED <<minTraffic, bestServer>>
    /\ pending' = pending \ {server}
    /\ UNCHANGED <<storeVars, trafficMap, lpc, lbStatus, lbTarget>>

\* bestServer == "": http.Error 503, nothing is forwarded.
HandlerUnavailable ==
    /\ lpc = "range" /\ pending = {}
    /\ bestServer = NoServer
    /\ lbStatus' = Unavailable /\ lbTarget' = NoServer
    /\ lpc' = "done"
    /\ UNCHANGED <<storeVars, trafficMap, pending, bestServer, minTraffic>>

\* forward(bestServer, rw, r).
HandlerForward ==
    /\ lpc = "range" /\ pending = {}
    /\ bestServer # NoServer
    /\ lbStatus' = Forwarded /\ lbTarget' = bestServer
    /\ lpc' = "done"
    /\ UNCHANGED <<storeVars, trafficMap, pending, bestServer, minTraffic>>

\* The handler has returned; the next request may come.
HandlerReturn ==
    /\ lpc = "done"
    /\ lpc' = "idle"
    /\ bestServer' = NoServer /\ minTraffic' = -1
    /\ lbStatus' = None /\ lbTarget' = NoServer
    /\ UNCHANGED <<storeVars, trafficMap, pending>>

\* ------------------------------------------------------------------- steps
PutSteps ==
    \/ \E p \in Putters, k \in Keys, v \in Vals : PutSend(p, k, v)
    \/ \E p \in Putters : PutReturn(p)
    \/ \E p \in Putters : PutDone(p)

WriterSteps ==
    \/ WriterReceive
    \/ RotateRename
    \/ RotateAppend
    \/ RotateOpen
    \/ PerformWriteAppend
    \/ PerformWritePublish

GetSteps ==
    \/ \E k \in Keys : GetSnapshot(k)
    \/ GetCurrent
    \/ GetProbe
    \/ GetNotFound
    \/ GetDone

MergeSteps ==
    \/ MergeNothing
    \/ MergeLock
    \/ MergeFill
    \/ MergeRename
    \/ MergeCleanup
    \/ MergeReindex
    \/ MergeDone

SizeSteps ==
    \/ SizeCall
    \/ SizeDone

CloseSteps ==
    \/ \E p \in Putters, k \in Keys, v \in Vals : PutShutdown(p, k, v)
    \/ WriterShutdown
    \/ WriterExit
    \/ CloseSignal
    \/ CloseWait

\* Every step of every goroutine.
Next ==
    \/ PutSteps
    \/ WriterSteps
    \/ GetSteps
    \/ MergeSteps
    \/ MergeFillFails
    \/ MergeReindexFails
    \/ SizeSteps
    \/ CloseSteps
    \/ Reopen

\* The engine under callers that run side by side.
Spec == Init /\ [][Next]_vars

\* One caller making its calls one after another: Put, Get, MergeSegments,
\* Close and a new Open.  (No rotation is running while MergeSegments runs,
\* so the merge finds every listed segment it opens and current-data.)
NextSeq ==
    \/ PutSteps
    \/ WriterSteps
    \/ GetSteps
    \/ MergeSteps
    \/ CloseSteps
    \/ Reopen

SpecSeq == InitSeq /\ [][NextSeq]_vars

\* The same caller, every record filling the current file.
SpecSmallSeg == InitSmallSeg /\ [][NextSeq]_vars

\* The same caller, and a process that may die inside MergeSegments and be
\* started again.
NextCrash ==
    \/ NextSeq
    \/ MergeCrash
    \/ OpenAfterCrash

SpecCrash == InitSeq /\ [][NextCrash]_vars

\* One caller of Put, Close and Open; a write may fail or be cut short by a
\* crash.
NextTorn ==
    \/ PutSteps
    \/ WriterSteps
    \/ CloseSteps
    \/ Reopen
    \/ WriteFails
    \/ WriteCrash
    \/ OpenFails

SpecTorn == InitSeq /\ [][NextTorn]_vars

\* One caller of Put and MergeSegments; db.out.Write may fail.
NextWriteFault ==
    \/ PutSteps
    \/ WriterSteps
    \/ MergeSteps
    \/ WriteFails

SpecWriteFault == InitSeq /\ [][NextWriteFault]_vars

\* One caller of Put and MergeSegments; a system call on the temporary file
\* of the merge may fail.
NextMergeFault ==
    \/ PutSteps
    \/ WriterSteps
    \/ MergeSteps
    \/ MergeCreateFails
    \/ MergeWriteFails
    \/ MergeCloseFails

SpecMergeFault == InitSeq /\ [][NextMergeFault]_vars

\* One caller of Put and Get; a system call of performWrite or rotateSegment
\* may fail.
NextFault ==
    \/ PutSteps
    \/ WriterSteps
    \/ GetSteps
    \/ WriteFails
    \/ RotateRenameFails
    \/ RotateOpenFails
    \/ WriterReceiveClosed

SpecFault == InitSeq /\ [][NextFault]_vars

\* Concurrent callers of Put, the writer goroutine and Close.
NextQueue ==
    \/ PutSteps
    \/ WriterSteps
    \/ CloseSteps

SpecQueue == Init /\ [][NextQueue]_vars

\* The scheduler runs every goroutine that can take a step: the writer
\* goroutine, a caller of Put whose reply has been sent, and the caller of
\* Close at db.wg.Wait().
FairQueue ==
    /\ WF_vars(WriterSteps \/ WriterShutdown \/ WriterExit)
    /\ \A p \in Putters : WF_vars(PutReturn(p))
    /\ WF_vars(CloseWait)

SpecQueueFair == SpecQueue /\ FairQueue

\* Concurrent callers of Put and of Get, and the writer goroutine.
NextRead ==
    \/ PutSteps
    \/ WriterSteps
    \/ GetSteps

SpecRead == Init /\ [][NextRead]_vars

\* Concurrent callers of Put and of MergeSegments, and the writer goroutine,
\* on an engine opened with a small maxSegmentSize.
NextMergeRace ==
    \/ PutSteps
    \/ WriterSteps
    \/ MergeSteps
    \/ MergeReindexFails

SpecMergeRace == InitSmallConc /\ [][NextMergeRace]_vars

\* The key every caller of this scenario works on.
HotKey == "a"

\* The value whose record is larger than the small maxSegmentSize.
LongVal == CHOOSE v \in Vals : EncodedLen("a", v) > SmallSegmentSize

\* Concurrent callers of Put, Get, Size and MergeSegments and the writer
\* goroutine, on an engine that nobody closes, opened with a small
\* maxSegmentSize; every Put is of the long value, so every Put rotates, and
\* every Put and Get is of one key.
NextOpen ==
    \/ \E p \in Putters : PutSend(p, HotKey, LongVal)
    \/ \E p \in Putters : PutReturn(p)
    \/ \E p \in Putters : PutDone(p)
    \/ WriterSteps
    \/ GetSnapshot(HotKey)
    \/ GetCurrent
    \/ GetProbe
    \/ GetNotFound
    \/ GetDone
    \/ SizeSteps
    \/ MergeSteps
    \/ MergeReindexFails

SpecOpen == InitSmallConc /\ [][NextOpen]_vars

\* The scheduler runs every goroutine that can take a step: the writer
\* goroutine, a caller of Put whose reply has been sent, and the callers of
\* Get and of MergeSegments once they are inside the call.
FairOpen ==
    /\ WF_vars(WriterSteps)
    /\ \A p \in Putters : WF_vars(PutReturn(p))
    /\ WF_vars(GetCurrent \/ GetProbe \/ GetNotFound)
    /\ WF_vars(MergeFill \/ MergeRename \/ MergeCleanup \/ MergeReindex \/ MergeReindexFails)

SpecOpenFair == SpecOpen /\ FairOpen

\* The load balancer: statistics ticks and requests, one after another.
NextBalancer ==
    \/ \E srv \in serversPool, healthy \in BOOLEAN, reported \in BOOLEAN, total \in Totals :
          UpdateStats(srv, healthy, reported, total)
    \/ HandlerBegin
    \/ \E server \in serversPool : HandlerVisit(server)
    \/ HandlerUnavailable
    \/ HandlerForward
    \/ HandlerReturn

SpecBalancer == InitSeq /\ [][NextBalancer]_vars

\* ================================================================ properties

\* C1: calls made one after another: a Get(k) of a key that has been put
\* returns the value of the most recent completed Put(k, .).
C1_GetReturnsLatestPut ==
    (rpc = "done" /\ rexpect # None) => rret = rexpect

\* C2: Close then Open on the same directory: for every key ever put, Get on
\* the reopened engine returns what Get returned just before the reopening.
C2_ReopenPreservesGet ==
    [][(cpc = "closed" /\ cpc' = "open") =>
          \A k \in Keys : everPut[k] # {} => GetNow'[k] = GetNow[k]]_vars

\* C3: after a successful MergeSegments, Get(k) returns for every key what it
\* returned before the call.
C3_MergePreservesGet ==
    (mpc = "done" /\ mret = Ok) => \A k \in Keys : GetNow[k] = mBefore[k]

\* C4: a Put that rotates the current file leaves what Get returns for every
\* other key as it was before that Put.
C4_RotationKeepsOtherKeys ==
    [][(wpc = "publish" /\ wpc' = "loop" /\ wrotated) =>
          \A k \in Keys \ {wreq.key} : GetNow'[k] = wBefore[k]]_vars

\* C5: Gets interleaved with Puts: a value Get(k) returns is a value that was
\* passed to Put(k, .) before.
C5_GetReturnsAPutValue ==
    (rpc = "done" /\ rret # NotFound) => rret \in everPut[rkey]

\* C6: a Get(k) returns the value k had when the Get started or the value of
\* a Put(k, .) in flight during the Get, and NotFound only if k had no value.
C6_GetPriorOrInFlight ==
    rpc = "done" => rret \in rallowed

\* C7: a Put that starts after Close has signalled shutdown never enqueues a
\* request, so no caller waits on a request sent after the shutdown.
C7_NoSendAfterShutdown ==
    \A p \in Putters : ppc[p] = "waiting" => preq[p].early

\* C8: when the writer goroutine has exited, every request sent before the
\* shutdown was signalled has been appended and answered; and Close has
\* closed the current file only after the writer exited.
C8_ShutdownDrains ==
    /\ wpc = "exited" =>
          /\ \A i \in DOMAIN enqueued :
                enqueued[i].early => \E j \in DOMAIN applied : applied[j] = enqueued[i].id
          /\ \A p \in Putters : (ppc[p] = "waiting" /\ preq[p].early) => presp[p] # None
    /\ cpc = "closed" => wpc = "exited"

\* A request sent before the shutdown is answered, the writer has exited and
\* Close has returned, while the caller has not yet read the answer.
C8_Witness ==
    /\ cpc = "closed" /\ wpc = "exited"
    /\ \E p \in Putters : ppc[p] = "waiting" /\ preq[p].early /\ presp[p] = Ok
    /\ Len(applied) >= 2

\* C9: the requests are appended in the order in which they were sent (the
\* appended ids are a prefix of the sent ids), and the one request whose
\* index entry the writer is about to publish is the one appended last.
C9_WritesInQueueOrder ==
    /\ Len(applied) <= Len(enqueued)
    /\ \A i \in DOMAIN applied : applied[i] = enqueued[i].id
    /\ wpc = "publish" => (applied # <<>> /\ wreq.id = applied[Len(applied)])

\* Two requests were outstanding together and both have been applied.
C9_Witness ==
    /\ Len(applied) >= 2
    /\ \A p \in Putters : ppc[p] = "waiting" /\ presp[p] = Ok

\* C10: after a successful MergeSegments that found two segments or more,
\* the directory holds exactly one segment file and db.segments is exactly
\* its name.
C10_MergeLeavesOneSegment ==
    [][(mpc = "cleanup" /\ mpc' = "reindex"
            /\ Cardinality({segments[i] : i \in DOMAIN segments}) >= 2)
        => (segments' = <<mNew>> /\ DOMAIN segFile' = {mNew})]_vars

\* C11: Size() is the byte size of the current file alone.  The append of a
\* Put that did not rotate makes Size() strictly larger, by the length of
\* the record; the append of a Put that rotated leaves Size() equal to the
\* length of the record; and no other step of a Put, Get or MergeSegments
\* changes Size().
C11_SizeGrowsOrResets ==
    [][/\ (wpc = "write" /\ wpc' = "publish" /\ ~wrotated) =>
            (Size' > Size /\ Size' = Size + EncodedLen(wreq.key, wreq.value))
       /\ (wpc = "write" /\ wpc' = "publish" /\ wrotated) =>
            Size' = EncodedLen(wreq.key, wreq.value)
       /\ (wpc \in {"loop", "publish"} /\ wpc' \in {"loop", "write", "publish"}
              /\ outOpen /\ outOpen') =>
            Size' = Size]_vars

\* A Put that rotated has appended its record: segments exist and Size() is
\* the length of that one record.
C11_Witness ==
    /\ wpc = "publish" /\ wrotated /\ segments # <<>>
    /\ Size = EncodedLen(wreq.key, wreq.value)

\* The encoded length of the longest record of file f, 0 for an empty file.
RECURSIVE LargestRecord(_)
LargestRecord(f) ==
    IF f = <<>> THEN 0
    ELSE LET l == EncodedLen(Head(f).key, Head(f).value)
             r == LargestRecord(Tail(f))
         IN  IF l > r THEN l ELSE r

\* C12: no segment file, made by a rotation or by MergeSegments, is larger
\* than maxSegmentSize plus the encoded length of its largest record.
C12_SegmentSizeBound ==
    \A n \in DOMAIN segFile :
        FileSize(segFile[n]) <= maxSegmentSize + LargestRecord(segFile[n])

\* C13: the process died between the rename of the merged file and the
\* removal of the old segments; on the engine the next Open returns, Get
\* gives for every key what it gave when the merge started.
C13_CrashedMergeKeepsGet ==
    [][(cpc = "crashed" /\ mpc = "cleanup" /\ cpc' = "open") =>
          \A k \in Keys : GetNow'[k] = mBefore[k]]_vars

\* C14: once OpenWithSegmentSize has returned an engine, the directory
\* holds no temp-merged file.
C14_OpenRemovesTempFile ==
    [][(cpc \in {"closed", "crashed"} /\ cpc' = "open") => ~tmpExists']_vars

\* Some data file of the directory ends in a partial frame.
TornTail ==
    \/ curFile # <<>> /\ curFile[Len(curFile)] = Partial
    \/ \E n \in DOMAIN segFile :
          segFile[n] # <<>> /\ segFile[n][Len(segFile[n])] = Partial

\* C15: OpenWithSegmentSize on a directory in which a segment or the
\* current file ends in a partial frame returns the corrupted-file error
\* naming such a file, and no engine: no writer runs, nothing is queued.
C15_TornFileFailsOpen ==
    [][(cpc \in {"closed", "crashed"} /\ cpc' \in {"open", "failed"} /\ TornTail) =>
          /\ cpc' = "failed"
          /\ oret'.err = "corrupted file"
          /\ \/ oret'.file = CurrentData /\ curFile[Len(curFile)] = Partial
             \/ \E n \in DOMAIN segFile :
                   /\ oret'.file = Segment(n)
                   /\ segFile[n][Len(segFile[n])] = Partial
          /\ wpc' = "exited" /\ writeQueue' = <<>>]_vars

\* Open has failed on a segment that a rotation made of a current file with
\* a partial frame at its end.
C15_Witness ==
    /\ cpc = "failed" /\ oret.err = "corrupted file"
    /\ oret.file[1] = "segment"
    /\ ~ (curFile # <<>> /\ curFile[Len(curFile)] = Partial)

\* C16: an I/O failure does not poison the engine: a Put returns an error
\* only for a system call of its own that failed, so no Put is answered
\* with the error of a file that an earlier, failed Put left closed.
C16_NoPoisonedPut == \A p \in Putters : presp[p] # ErrFileClosed

\* C17: no operation hides a failure: a Get whose reads of current-data and
\* of every segment of its snapshot have failed (open, seek or decode) does
\* not return ErrNotFound in place of the error.
C17_GetReportsFailure ==
    [][(rpc = "probe" /\ rpc' = "done") => rret' # NotFound]_vars

\* C18: Get(k) of a key that was never put, in this or an earlier lifetime
\* of the directory, returns ErrNotFound, whatever has been put, rotated or
\* merged for other keys.
C18_NeverPutIsNotFound ==
    (rpc = "done" /\ everPut[rkey] = {}) => rret = NotFound

\* A Get of a never-put key has returned after another key was put, rotated
\* into segments and merged.
C18_Witness ==
    /\ rpc = "done" /\ everPut[rkey] = {} /\ rret = NotFound
    /\ merges > 0 /\ segments # <<>>
    /\ \E k \in Keys : index[k] # NoPos

\* The healthy servers of the traffic map.
HealthyServers == {server \in serversPool : trafficMap[server].Healthy}

\* C20: the selection never picks an unhealthy server: it forwards to a
\* healthy server whose traffic is minimal among the healthy ones, and when
\* no server is healthy it selects none and answers 503 without forwarding.
C20_SelectsMinimalHealthy ==
    lpc = "done" =>
        IF HealthyServers = {}
        THEN lbStatus = Unavailable /\ lbTarget = NoServer
        ELSE /\ lbStatus = Forwarded
             /\ lbTarget \in HealthyServers
             /\ \A server \in HealthyServers :
                   trafficMap[lbTarget].Traffic <= trafficMap[server].Traffic

\* The keys of the records of f that begin at byte offset position.
KeysAt(f, position) == {f[i].key : i \in {j \in 1..Len(f) : OffsetOf(f, j) = position}}

\* C21: Get decodes in the file that holds the key's record: the value it
\* returns from current-data, or from a segment of its snapshot, is the
\* value of a record of the key it was asked for, never the record of
\* another key that begins at the same byte offset in a different file.
C21_GetReadsLocatorsFile ==
    [][/\ (rpc = "current" /\ rpc' = "done") => rkey \in KeysAt(curFile, rpos)
       /\ (rpc = "probe" /\ rpc' = "done" /\ ri >= 1) =>
              rkey \in KeysAt(segFile[rsegs[ri]], rpos)]_vars

\* The files Get can read: current-data and the listed segments.
ListedFiles ==
    (IF curExists THEN {curFile} ELSE {})
        \cup {segFile[segments[i]] : i \in {j \in DOMAIN segments : segments[j] \in DOMAIN segFile}}

\* C22: in a quiescent state every key of the index has, in current-data or
\* in a listed segment, a record of that key beginning at index[k] and
\* carrying the key's latest put value.
C22_IndexedKeysDecodable ==
    Quiescent =>
        \A k \in Keys : index[k] # NoPos =>
            \E f \in ListedFiles : \E i \in 1..Len(f) :
                /\ OffsetOf(f, i) = index[k]
                /\ f[i].key = k
                /\ f[i].value = lastPut[k]

\* C23: a Put of an encoded length L rotates before appending if and only
\* if the size S of the current file has S + L > maxSegmentSize; the
\* rotation makes the old current file the new last entry of db.segments,
\* opens an empty current file and resets db.outOffset to zero before the
\* append.
C23_RotatesIffOverLimit ==
    [][/\ (wpc = "loop" /\ wpc' \in {"rotate", "write"}) =>
              (wpc' = "rotate" <=>
                  FileSize(curFile) + EncodedLen(wreq'.key, wreq'.value) > maxSegmentSize)
       /\ (wpc = "rotate" /\ wpc' = "rotate_append") =>
              (segFile'[wseg'] = curFile /\ ~curExists')
       /\ (wpc = "rotate_append" /\ wpc' = "rotate_open") =>
              (segments' = Append(segments, wseg) /\ segFile' = segFile)
       /\ (wpc = "rotate_open" /\ wpc' = "write") =>
              (curExists' /\ curFile' = <<>> /\ outOffset' = 0 /\ segments' = segments)
       /\ (wpc = "write" /\ wpc' = "publish") =>
              /\ wrotated => (curFile = <<>> /\ outOffset = 0 /\ segments[Len(segments)] = wseg)
              /\ curFile' = Append(curFile, entry(wreq.key, wreq.value))
              /\ segments' = segments /\ segFile' = segFile]_vars

\* A second rotation is done and its Put is about to append: the list has
\* two entries, the last one naming what was the current file.
C23_Witness ==
    /\ wpc = "write" /\ wrotated /\ Len(segments) = 2
    /\ curFile = <<>> /\ outOffset = 0
    /\ segFile[segments[2]] # <<>>

\* C24: every segment file a rotation produces holds at least one record,
\* also when the record being put is longer than maxSegmentSize and the
\* current file is empty.
C24_RotatedSegmentNotEmpty ==
    [][(wpc = "rotate" /\ wpc' = "rotate_append") => segFile'[wseg'] # <<>>]_vars

\* C25: in the first lifetime of a directory, where every segment file was
\* made by this engine, a rotation and a merge name their new segment with a
\* number above that of every segment file made before, so that the rename
\* never lands on an existing segment file, also when the clock reads the
\* same value twice.
C25_SegmentNamesIncrease ==
    [][/\ (opens = 0 /\ wpc = "rotate" /\ wpc' = "rotate_append") =>
              \A n \in DOMAIN segFile : wseg' > n
       /\ (opens = 0 /\ mpc = "rename" /\ mpc' = "cleanup") =>
              \A n \in DOMAIN segFile : mNew' > n]_vars

\* f holds a record of k.
HoldsKey(f, k) == \E i \in 1..Len(f) : f[i].key = k
\* The byte offset at which the last record of k in f begins.
LastOffsetIn(f, k) ==
    OffsetOf(f, CHOOSE i \in 1..Len(f) :
                    f[i].key = k /\ \A j \in (i + 1)..Len(f) : f[j].key # k)
\* The segments on disk that hold a record of k.
SegmentsWith(k) == {n \in DOMAIN segFile : HoldsKey(segFile[n], k)}
\* Where the last record of k is in the order oldest segment < ... < newest
\* segment < current file.
LatestOnDisk(k) ==
    IF HoldsKey(curFile, k) THEN LastOffsetIn(curFile, k)
    ELSE IF SegmentsWith(k) # {}
         THEN LastOffsetIn(segFile[CHOOSE n \in SegmentsWith(k) :
                                       \A m \in SegmentsWith(k) : m <= n], k)
         ELSE NoPos

\* C26: Open lists the segments in ascending order of their numbers and
\* leaves index[k] at the start of the last record of k in the order oldest
\* segment, ..., newest segment, current file, for every key on disk (and
\* without a position for a key that is not on disk).
C26_RecoveryIndexesLatest ==
    [][(cpc = "closed" /\ cpc' = "open") =>
          /\ \A k \in Keys : index'[k] = LatestOnDisk(k)
          /\ \A i, j \in DOMAIN segments' : i < j => segments'[i] < segments'[j]
          /\ {segments'[i] : i \in DOMAIN segments'} = DOMAIN segFile]_vars

\* Open has run on a directory where a key is missing from the current file
\* and its last records in two segments begin at different offsets.
C26_Witness ==
    /\ cpc = "open" /\ opens = 1 /\ Len(segments) >= 2
    /\ \E k \in Keys :
          /\ ~HoldsKey(curFile, k)
          /\ \E n, m \in SegmentsWith(k) :
                LastOffsetIn(segFile[n], k) # LastOffsetIn(segFile[m], k)
          /\ index[k] = LatestOnDisk(k)

\* C27: while the writer is idle and no fault has occurred, db.outOffset is
\* the byte size of the current file: Open sets it to the walked length, a
\* successful Put advances it by the bytes appended and rotation resets it
\* to zero; a successful Put sets index[key] to the offset at which its
\* record begins.
C27_OffsetIsFileSize ==
    [][/\ (wpc' = "loop" /\ outOpen' /\ faults' = 0) => outOffset' = FileSize(curFile')
       /\ (cpc = "closed" /\ cpc' = "open") => outOffset' = FileSize(curFile)
       /\ (wpc = "rotate_open" /\ wpc' = "write") => outOffset' = 0
       /\ (wpc = "publish" /\ wpc' = "loop") =>
              /\ index'[wreq.key] = OffsetOf(curFile, Len(curFile))
              /\ curFile[Len(curFile)] = entry(wreq.key, wreq.value)
              /\ outOffset' = outOffset + EncodedLen(wreq.key, wreq.value)]_vars

\* The writer is idle in a second lifetime, after a rotation, with two
\* records in the current file.
C27_Witness ==
    /\ wpc = "loop" /\ outOpen /\ opens = 1 /\ segments # <<>>
    /\ Len(curFile) = 2 /\ outOffset = FileSize(curFile)
    /\ \E k \in Keys : index[k] = OffsetOf(curFile, 2)

\* The step of a performWrite whose db.out.Write fails.
WriteFailed == wpc = "write" /\ wpc' = "loop" /\ faults' = faults + 1

\* C28 as stated: a Put whose append fails leaves the index and the
\* current-offset as they were before the Put.
C28_OffsetAsBeforeThePut ==
    [][WriteFailed => (index' = index /\ outOffset' = wOffsetBefore)]_vars

\* C28, amended: a Put whose append fails returns the error and the failed
\* append changes neither the index nor the current-offset: the index is as
\* it was before the Put, and the current-offset is as it was before the Put
\* unless the Put rotated first, when it is zero, the offset of the new
\* empty current file.  The index changes only at the end of a successful
\* write or of a successful merge.
C28_FailedWriteLeavesIndexAndOffset ==
    [][/\ WriteFailed =>
              /\ presp'[wreq.from] = IOFault
              /\ index' = index
              /\ outOffset' = outOffset
              /\ outOffset' = IF wrotated THEN 0 ELSE wOffsetBefore
       /\ (index' # index /\ cpc = "open" /\ cpc' = "open") =>
              \/ wpc = "publish" /\ presp'[wreq.from] = Ok
              \/ mpc = "reindex" /\ mpc' = "done" /\ mret' = Ok]_vars

\* A failed append has been answered after a rotation of the same Put, with
\* keys in the index.
C28_Witness ==
    /\ faults = 1 /\ wpc = "loop" /\ segments # <<>> /\ outOffset = 0
    /\ \E p \in Putters : presp[p] = IOFault
    /\ \E k \in Keys : index[k] # NoPos

C30_FailedMergeLeavesState ==
    [][(mpc = "fill" /\ faults' = faults + 1) =>
          /\ mpc' = "done" /\ mret' = IOFault
          /\ ~tmpExists'
          /\ index' = index /\ segments' = segments /\ segFile' = segFile]_vars

\* C31: MergeSegments never modifies the current file, and its index update
\* leaves a key that has a record in the current file at the offset of its
\* last record there, and points a key found only in the segments at the
\* offset of its record in the new merged segment.
C31_MergeKeepsCurrentFile ==
    [][/\ (mpc' # mpc) =>
              (curFile' = curFile /\ curExists' = curExists /\ outOffset' = outOffset)
       /\ (mpc = "reindex" /\ mpc' = "done" /\ mret' = Ok /\ mNew \in DOMAIN segFile) =>
              \A k \in Keys :
                  /\ HoldsKey(curFile, k) => index'[k] = LastOffsetIn(curFile, k)
                  /\ (~HoldsKey(curFile, k) /\ HoldsKey(segFile[mNew], k)) =>
                         index'[k] = LastOffsetIn(segFile[mNew], k)]_vars

\* A merge has returned nil with one key in the current file at another
\* offset than in the merged segment and one key in the merged segment only.
C31_Witness ==
    /\ mpc = "done" /\ mret = Ok /\ mNew \in DOMAIN segFile
    /\ \E k \in Keys :
          /\ HoldsKey(curFile, k) /\ HoldsKey(segFile[mNew], k)
          /\ LastOffsetIn(curFile, k) # LastOffsetIn(segFile[mNew], k)
          /\ index[k] = LastOffsetIn(curFile, k)
    /\ \E k \in Keys :
          /\ ~HoldsKey(curFile, k) /\ HoldsKey(segFile[mNew], k)
          /\ index[k] = LastOffsetIn(segFile[mNew], k)

\* The value of the last record of k in f.
LastValueIn(f, k) ==
    f[CHOOSE i \in 1..Len(f) :
          f[i].key = k /\ \A j \in (i + 1)..Len(f) : f[j].key # k].value
\* The positions of db.segments whose file holds a record of k.
ListedWith(k) == {i \in DOMAIN segments : HoldsKey(segFile[segments[i]], k)}
\* The last of them.
NewestListedWith(k) == CHOOSE i \in ListedWith(k) : \A j \in ListedWith(k) : j <= i

\* C32: the file a MergeSegments writes holds exactly one record for each
\* key that occurs in a merged segment and no other record; the record
\* carries the value of the key's last record when the segments are read in
\* the order of db.segments, oldest first, and newIndex holds the offset at
\* which it begins.
C32_MergedSegmentHoldsLatest ==
    [][(mpc = "fill" /\ mpc' = "rename") =>
          /\ \A k \in Keys :
                IF ListedWith(k) = {}
                THEN ~HoldsKey(tmpFile', k) /\ mNewIndex'[k] = NoPos
                ELSE /\ Cardinality({i \in 1..Len(tmpFile') : tmpFile'[i].key = k}) = 1
                     /\ LastValueIn(tmpFile', k) =
                            LastValueIn(segFile[segments[NewestListedWith(k)]], k)
                     /\ mNewIndex'[k] = LastOffsetIn(tmpFile', k)
          /\ \A i \in 1..Len(tmpFile') : tmpFile'[i].key \in Keys]_vars

\* The temporary file is written from two segments that hold different
\* values for one key, and it has a record for each of two keys.
C32_Witness ==
    /\ mpc = "rename" /\ tmpExists /\ Len(tmpFile) = 2 /\ Len(segments) = 2
    /\ segments[1] # segments[2]
    /\ \E k \in Keys :
          /\ ListedWith(k) = {1, 2}
          /\ LastValueIn(segFile[segments[1]], k) # LastValueIn(segFile[segments[2]], k)
          /\ LastValueIn(tmpFile, k) = LastValueIn(segFile[segments[2]], k)

\* MergeSegments holds db.indexMu.
MergeInProgress == indexMu /\ mpc \in {"fill", "rename", "cleanup", "reindex"}

\* C33: while MergeSegments is in progress no step of the writer goroutine
\* appends a record to the current file, renames the current file or changes
\* db.segments.
C33_PutsWaitForTheMerge ==
    [][(MergeInProgress /\ wpc' # wpc) =>
          /\ Len(curFile') <= Len(curFile)
          /\ ~(curExists /\ ~curExists')
          /\ segments' = segments]_vars

\* C34: under fair scheduling every Put that has sent its request returns,
\* also a Put that races with Close.
C34_EveryPutReturns ==
    \A p \in Putters : (ppc[p] = "waiting") ~> (ppc[p] = "done")

\* C35: in every state db.segments is in ascending order of the numbers in
\* its names, which is the order recover computes from the same names on a
\* reopen.
C35_SegmentsInRecoveryOrder ==
    segments = SortSegments({segments[i] : i \in DOMAIN segments})

\* C36: a MergeSegments that returns an error has left db.segments as it
\* found it and has removed none of the segment files listed there; one that
\* returns nil after merging has replaced the list by its new segment.
C36_MergeAllOrNothing ==
    [][(mpc # "done" /\ mpc' = "done") =>
          IF mret' = Ok
          THEN Len(mSegsBefore') >= 2 => segments' = <<mNew>>
          ELSE /\ segments' = mSegsBefore'
               /\ \A i \in DOMAIN mSegsBefore' : mSegsBefore'[i] \in DOMAIN segFile']_vars

\* C37: a Get(k) that started after a Put of k had returned does not return
\* ErrNotFound while the Puts in flight are Puts of other keys.
C37_CompletedPutIsFound ==
    (/\ rpc = "done" /\ rexpect # None
     /\ \A p \in Putters : preq[p] # NoReq => preq[p].key # rkey)
        => rret # NotFound

\* No call that has started is still running: no Put waits for its reply,
\* no Get is between its snapshot and its return, and no MergeSegments holds
\* db.indexMu.
AllReturned ==
    /\ \A p \in Putters : ppc[p] # "waiting"
    /\ rpc \notin {"current", "probe"}
    /\ ~MergeInProgress

\* C38: on an engine that is not being closed, under fair scheduling every
\* started Put, Get and MergeSegments returns: again and again no started
\* call is left running.  db.indexMu is held between steps by MergeSegments
\* alone (Get releases it before its file reads, Size never takes it), and a
\* MergeSegments that holds it always has a step it can take, whatever the
\* writer goroutine is doing.
C38_StartedOperationsComplete ==
    /\ []<>AllReturned
    /\ [](indexMu => MergeInProgress)
    /\ [](MergeInProgress =>
            ENABLED (MergeFill \/ MergeRename \/ MergeCleanup \/ MergeReindex
                        \/ MergeReindexFails))

\* MergeSegments holds db.indexMu while the writer goroutine waits for it in
\* rotateSegment, both callers of Put wait for their replies, a Get is
\* probing the files of its snapshot and a Size has returned.
C38_Witness ==
    /\ MergeInProgress /\ wpc = "rotate_append"
    /\ \A p \in Putters : ppc[p] = "waiting"
    /\ rpc = "probe" /\ spc = "done"

====
